---- MODULE Spec2Model ----
(***************************************************************************)
(* A model of nlpeasy/elastic.py: the ElasticStack handle (lazy client,    *)
(* alive, waitFor), the module-level default stack, connect_elastic and    *)
(* the index builder createIndex with getAnalysis, truncate, and the       *)
(* document loader loadDocs.                                               *)
(*                                                                         *)
(* Python values are modelled as follows.  None is the string "None", a    *)
(* missing value (float NaN) is the string "NaN", a dict is a function     *)
(* whose domain is its key set, a list is a sequence.  A call that can     *)
(* raise yields a record with a field `raised`.                            *)
(***************************************************************************)
EXTENDS Integers, Sequences, FiniteSets, TLC

VARIABLES
    loadArgs,       \* the arguments of the loadDocs call under study
    loadOut,        \* its position and the engine calls it has issued
    stacks,         \* the ElasticStack objects created so far, by identity
    DEFAULT_STACK,  \* the module global __DEFAULT_STACK
    out,            \* outcome of the last operation on the stack handles
    wf,             \* the waitFor call in progress
    conn,           \* the connect_elastic call under study
    idx             \* the createIndex call under study

vars == <<loadArgs, loadOut, stacks, DEFAULT_STACK, out, wf, conn, idx>>

NoneVal == "None"                 \* None where a str is expected
NoneObj == [kind |-> "None"]      \* None where an object is expected
NaN == "NaN"

Min(a, b) == IF a < b THEN a ELSE b

(***************************************************************************)
(* Bounds of the model.                                                    *)
(***************************************************************************)
MaxRows == 3        \* longest dataset handed to loadDocs
MaxChunk == 3       \* largest chunksize handed to loadDocs
MaxStacks == 2      \* most ElasticStack objects alive at once
MaxRetries == 3     \* largest max_retries a client is configured with
MaxPolls == 45      \* most polls of one waitFor call that are followed
MaxAliveTicks == 1  \* longest alive() call, in clock ticks
TicksPerSec == 20   \* clock ticks per second: one tick is 0.05 s

(***************************************************************************)
(* loadDocs: the datasets.                                                 *)
(* A dataset has the columns "id" and "t"; the column "t" may hold the     *)
(* missing value.  Its index (row labels) is either the default ascending  *)
(* one or a descending one, so that labels and positions differ.           *)
(***************************************************************************)
LabelPool == <<"r0", "r1", "r2", "r3", "r4", "r5">>

Rows == [id : {"i", "k"}, t : {"x", NaN}]

Indexes(n) ==
    { [k \in 1..n |-> LabelPool[k]], [k \in 1..n |-> LabelPool[n + 1 - k]] }

Columns == {"id", "t"}

\* The characters of a Python str, as str.__getitem__ sees them.
Chars(s) ==
    CASE s = "id" -> <<"i", "d">>
      [] s = "t" -> <<"t">>

\* util.chunker(texts, chunksize): consecutive slices of chunksize rows, the
\* last one holding the remainder.
Chunker(seq, size) ==
    [c \in 1..((Len(seq) + size - 1) \div size) |->
        SubSeq(seq, (c - 1) * size + 1, Min(c * size, Len(seq)))]

\* util.rmNanFromDict(doc): the dict without the keys whose value is NaN.
RmNanFromDict(doc) ==
    [k \in {x \in DOMAIN doc : doc[x] # NaN} |-> doc[k]]

\* seq[i] of Python for a 0-based non-negative i: IndexError past the end.
GetItem(seq, i) ==
    IF i < Len(seq)
    THEN [raised |-> NoneVal, value |-> seq[i + 1]]
    ELSE [raised |-> "IndexError", value |-> NoneVal]

\* Lines 268-269: the object that idCol[i] later indexes.  With idCol left
\* None it is the dataset's index; otherwise it is the argument itself, the
\* str naming the column.
ResolveIdCol(a) ==
    IF a.idCol = NoneVal THEN a.index ELSE Chars(a.idCol)

RowPosPlain(ic, chunksize, ii) == ic + ii

\* Line 280: i = ic * chunksize + ii
RowPos(ic, chunksize, ii) == ic * chunksize + ii

DocBodyRawSuggest(rec, suggestCol) ==
    LET doc == RmNanFromDict(rec)
    IN  IF suggestCol # NoneVal /\ suggestCol \in DOMAIN rec
        THEN [k \in DOMAIN doc \cup {"suggest"} |->
                 IF k = "suggest" THEN rec[suggestCol] ELSE doc[k]]
        ELSE doc

\* Lines 281-283: strip the missing values, then copy the suggest source.
DocBody(rec, suggestCol) ==
    LET doc == RmNanFromDict(rec)
    IN  IF suggestCol # NoneVal /\ suggestCol \in DOMAIN doc
        THEN [k \in DOMAIN doc \cup {"suggest"} |->
                 IF k = "suggest" THEN doc[suggestCol] ELSE doc[k]]
        ELSE doc

\* Lines 277-279: enumerate(chunker(...)) and enumerate(docs), flattened in
\* iteration order; `row` is the position of the record in the dataset.
RECURSIVE EnumChunks(_, _, _)
EnumChunks(chunks, c, done) ==
    IF c > Len(chunks) THEN <<>>
    ELSE [j \in 1..Len(chunks[c]) |->
             [ic |-> c - 1, ii |-> j - 1, rec |-> chunks[c][j], row |-> done + j]]
         \o EnumChunks(chunks, c + 1, done + Len(chunks[c]))

\* Lines 279-289: the body of the inner loop from the k-th record on.  The
\* upsert of a record in a.failing raises ElasticsearchException, which is
\* caught; an IndexError of idCol[i] is not, and ends the call.
RECURSIVE LoadLoop(_, _, _)
LoadLoop(a, recs, k) ==
    IF k > Len(recs) THEN [calls |-> <<>>, raised |-> NoneVal]
    ELSE LET r == recs[k]
             i == RowPos(r.ic, a.chunksize, r.ii)
             doc == DocBody(r.rec, a.suggestCol)
             key == GetItem(ResolveIdCol(a), i)
         IN  IF key.raised # NoneVal
             THEN [calls |-> <<>>, raised |-> key.raised]
             ELSE LET rest == LoadLoop(a, recs, k + 1)
                      call == [op |-> "index", chunk |-> r.ic, id |-> key.value,
                               body |-> doc, row |-> r.row,
                               failed |-> r.row \in a.failing]
                  IN  [calls |-> <<call>> \o rest.calls, raised |-> rest.raised]

\* Lines 270-274: the optional delete of the index; its failure is swallowed.
DeleteOld(a) ==
    IF a.deleteOld THEN <<[op |-> "delete"]>> ELSE <<>>

LoadInputs ==
    { a \in [texts : UNION { [1..n -> Rows] : n \in 0..MaxRows },
             index : UNION { Indexes(n) : n \in 0..MaxRows },
             chunksize : 1..MaxChunk,
             idCol : {NoneVal} \cup Columns,
             suggestCol : {NoneVal} \cup Columns,
             deleteOld : BOOLEAN,
             failing : SUBSET (1..MaxRows)] :
        /\ Len(a.index) = Len(a.texts)
        /\ a.failing \subseteq 1..Len(a.texts) }

IdleOut == [op |-> NoneVal]
IdleWf == [pc |-> "idle"]
IdleConn == [pc |-> "idle"]
IdleLoad == [pc |-> "idle"]
IdleIdx == [pc |-> "idle"]

InitLoad ==
    /\ loadArgs \in LoadInputs
    /\ loadOut = [pc |-> "ready", calls |-> <<>>, raised |-> NoneVal]
    /\ stacks = <<>>
    /\ DEFAULT_STACK = NoneObj
    /\ out = IdleOut
    /\ wf = IdleWf
    /\ conn = IdleConn
    /\ idx = IdleIdx

\* ElasticStack.loadDocs, lines 266-289, as one step.
LoadDocs ==
    /\ loadOut.pc = "ready"
    /\ LET a == loadArgs
           r == LoadLoop(a, EnumChunks(Chunker(a.texts, a.chunksize), 1, 0), 1)
       IN  loadOut' = [pc |-> "done",
                       calls |-> DeleteOld(a) \o r.calls,
                       raised |-> r.raised]
    /\ UNCHANGED <<idx, loadArgs, stacks, DEFAULT_STACK, out, wf, conn>>

NextLoad == LoadDocs

SpecLoad == InitLoad /\ [][NextLoad]_vars

Upserts == SelectSeq(loadOut.calls, LAMBDA c : c.op = "index")

(***************************************************************************)
(* Claims about loadDocs, checked under SpecLoad.                          *)
(***************************************************************************)
NumRows == Len(loadArgs.texts)

\* C1: loadDocs on N rows with chunk size c issues exactly N upserts, in row
\* order, grouped in chunks of c, c, ..., remainder, whichever documents the
\* engine rejects, and no error propagates out of the call.
C1_AllRowsUpserted ==
    loadOut.pc = "done" =>
        /\ loadOut.raised = NoneVal
        /\ Len(Upserts) = NumRows
        /\ \A k \in 1..Len(Upserts) :
              /\ Upserts[k].row = k
              /\ Upserts[k].chunk = (k - 1) \div loadArgs.chunksize

\* C2: with an identifier column given, every record is upserted under its
\* own value in that column.
C2_IdFromColumn ==
    (loadOut.pc = "done" /\ loadArgs.idCol # NoneVal) =>
        \A k \in 1..NumRows :
            /\ k <= Len(Upserts)
            /\ Upserts[k].row = k
            /\ Upserts[k].id = loadArgs.texts[k][loadArgs.idCol]

\* C3: with no identifier column, the record at row position i is upserted
\* under the i-th row label, so the ids of the load are the index in order.
C3_IdFromIndex ==
    (loadOut.pc = "done" /\ loadArgs.idCol = NoneVal) =>
        /\ loadOut.raised = NoneVal
        /\ Len(Upserts) = NumRows
        /\ \A k \in 1..NumRows :
              /\ Upserts[k].row = k
              /\ Upserts[k].id = loadArgs.index[k]

C3_Witness ==
    /\ loadOut.pc = "done"
    /\ loadArgs.idCol = NoneVal
    /\ NumRows = 3
    /\ loadArgs.chunksize = 2
    /\ loadArgs.index[1] = "r2"
    /\ loadArgs.failing = {2}
    /\ Len(Upserts) = 3
    /\ Upserts[3].chunk = 1

\* C4: no record body handed to the engine's upsert holds a field whose
\* value is the missing value, whatever suggestCol is.
C4_NoMissingValueSent ==
    \A k \in 1..Len(Upserts) :
        \A f \in DOMAIN Upserts[k].body : Upserts[k].body[f] # NaN

C4_Witness ==
    /\ loadOut.pc = "done"
    /\ loadArgs.suggestCol = "t"
    /\ \E k \in 1..Len(Upserts) :
          /\ loadArgs.texts[Upserts[k].row].t = NaN
          /\ DOMAIN Upserts[k].body = {"id"}
    /\ \E k \in 1..Len(Upserts) :
          /\ loadArgs.texts[Upserts[k].row].t = "x"
          /\ Upserts[k].body.suggest = "x"

(***************************************************************************)
(* The ElasticStack handle and the module-level default stack.             *)
(* stacks[h] holds the fields of the h-th object created: _es, the lazily  *)
(* created client (NoneObj until then), and _elasticKwargs, of which the   *)
(* model keeps max_retries, the client's retry-on-failure value.           *)
(***************************************************************************)
Ref(h) == [kind |-> "ElasticStack", id |-> h]

Refs == { Ref(h) : h \in 1..Len(stacks) }

Outcomes == {"true", "false", "raise"}   \* of es.ping() and of kibana.alive()
CtorOutcomes == {"ok", "raise"}          \* of elasticsearch.Elasticsearch(...)

OrigMaxRetries == 3     \* line 121: orig_max_retries = 3

\* Lines 97-106: a new object; the client is not created.  `built` counts
\* the clients constructed for the object.
NewStackFields(kw) ==
    [_es |-> NoneObj, _elasticKwargs |-> [max_retries |-> kw], built |-> 0]

\* The property es without the test of self._es: a client is constructed on
\* every use.
EsAlwaysNew(st, ctor) ==
    IF ctor = "ok"
    THEN [raised |-> FALSE,
          stack |-> [st EXCEPT !._es =
              [kind |-> "Elasticsearch",
               max_retries |-> st._elasticKwargs.max_retries],
                               !.built = st.built + 1]]
    ELSE [raised |-> TRUE, stack |-> st]

\* Lines 157-162, the property es.  ctor is what the client's constructor
\* does if it is called.
Es(st, ctor) ==
    IF st._es = NoneObj
    THEN IF ctor = "ok"
         THEN [raised |-> FALSE,
               stack |-> [st EXCEPT !._es =
                   [kind |-> "Elasticsearch",
                    max_retries |-> st._elasticKwargs.max_retries],
                                    !.built = st.built + 1]]
         ELSE [raised |-> TRUE, stack |-> st]
    ELSE [raised |-> FALSE, stack |-> st]

\* Line 129: ping() and kibana.alive(), with the exceptions of either caught
\* by line 130 leaving result at its initial False.
ProbeResult(ping, kib) ==
    IF ping = "true" THEN kib = "true" ELSE FALSE

AliveTryReadLate(st, ctor, ping, kib) ==
    LET e == Es(st, ctor)
    IN  IF e.raised
        THEN [stack |-> st, orig |-> OrigMaxRetries, result |-> FALSE]
        ELSE LET s0 == [e.stack EXCEPT !._es.max_retries = 0]
             IN  [stack |-> s0, orig |-> s0._es.max_retries,
                  result |-> ProbeResult(ping, kib)]

\* Lines 121-132: the try block of alive and its except clause.
AliveTry(st, ctor, ping, kib) ==
    LET e == Es(st, ctor)
    IN  IF e.raised
        THEN [stack |-> st, orig |-> OrigMaxRetries, result |-> FALSE]
        ELSE [stack |-> [e.stack EXCEPT !._es.max_retries = 0],
              orig |-> e.stack._es.max_retries,
              result |-> ProbeResult(ping, kib)]

\* Lines 118-135, alive.  Line 133 reads the property es again, outside the
\* try block: a constructor that raises there ends the call.
AliveCall(st, c1, c2, ping, kib) ==
    LET t == AliveTry(st, c1, ping, kib)
        e == Es(t.stack, c2)
    IN  IF e.raised
        THEN [raised |-> TRUE, stack |-> t.stack, result |-> FALSE]
        ELSE [raised |-> FALSE,
              stack |-> [e.stack EXCEPT !._es.max_retries = t.orig],
              result |-> t.result]

\* What one alive() call on the handle st can meet: the outcomes of the
\* client's constructor (first use, and again on line 133), of the ping
\* and of the dashboard check.  A collaborator that the call does not reach
\* is given one fixed outcome.
ProbeEnvs(st) ==
    { p \in [c1 : CtorOutcomes, c2 : CtorOutcomes, ping : Outcomes,
              kib : Outcomes] :
        /\ st._es # NoneObj => (p.c1 = "ok" /\ p.c2 = "ok")
        /\ p.c1 = "ok" => p.c2 = "ok"
        /\ p.c1 = "raise" => p.ping = "false"
        /\ p.ping # "true" => p.kib = "false" }

\* Lines 316-320, defaultStack.  The function assigns __DEFAULT_STACK and,
\* unlike setDefaultStack on line 322, does not declare it global: the name
\* is a local of the call, unbound on entry, and line 318 reads it.
Unbound == [kind |-> "unbound"]

DefaultStackCall(global, nstacks) ==
    LET local == Unbound
    IN  IF local = Unbound
        THEN [raised |-> "UnboundLocalError", result |-> NoneObj, created |-> FALSE]
        ELSE IF local = NoneObj
        THEN [raised |-> NoneVal, result |-> Ref(nstacks + 1), created |-> TRUE]
        ELSE [raised |-> NoneVal, result |-> local, created |-> FALSE]

Init ==
    /\ stacks = <<>>
    /\ DEFAULT_STACK = NoneObj
    /\ out = IdleOut
    /\ wf = IdleWf
    /\ conn = IdleConn
    /\ idx = IdleIdx
    /\ loadArgs = NoneObj
    /\ loadOut = IdleLoad

\* ElasticStack(**kwargs, setAsDefaultStack=...), lines 97-116.
NewElasticStack(kw, setAsDefaultStack) ==
    /\ Len(stacks) < MaxStacks
    /\ stacks' = Append(stacks, NewStackFields(kw))
    /\ DEFAULT_STACK' = IF setAsDefaultStack THEN Ref(Len(stacks) + 1)
                        ELSE DEFAULT_STACK
    /\ out' = [op |-> "ElasticStack", self |-> Len(stacks) + 1]
    /\ UNCHANGED <<idx, loadArgs, loadOut, wf, conn>>

\* What a collaborator did in the call recorded in `out`, if it was called.
Called(reached, outcome) == IF reached THEN outcome ELSE "not called"

\* stacks[h].alive(); `out` records what the call met and what it returned.
Alive(h, p) ==
    /\ LET r == AliveCall(stacks[h], p.c1, p.c2, p.ping, p.kib)
           pinged == ~Es(stacks[h], p.c1).raised
       IN  /\ stacks' = [stacks EXCEPT ![h] = r.stack]
           /\ out' = [op |-> "alive", self |-> h, raised |-> r.raised,
                      result |-> r.result, before |-> stacks[h]._es,
                      ctor |-> Called(stacks[h]._es = NoneObj, p.c1),
                      ping |-> Called(pinged, p.ping),
                      kib |-> Called(pinged /\ p.ping = "true", p.kib)]
    /\ UNCHANGED <<idx, loadArgs, loadOut, DEFAULT_STACK, wf, conn>>

\* setDefaultStack(es), lines 321-323.
SetDefaultStack(es) ==
    /\ DEFAULT_STACK' = es
    /\ out' = [op |-> "setDefaultStack", arg |-> es]
    /\ UNCHANGED <<idx, loadArgs, loadOut, stacks, wf, conn>>

\* defaultStack(), lines 317-320.
DefaultStack ==
    /\ LET r == DefaultStackCall(DEFAULT_STACK, Len(stacks))
       IN  /\ out' = [op |-> "defaultStack", raised |-> r.raised,
                      result |-> r.result, before |-> DEFAULT_STACK]
           /\ IF r.created
              THEN /\ Len(stacks) < MaxStacks
                   /\ stacks' = Append(stacks, NewStackFields(OrigMaxRetries))
              ELSE stacks' = stacks
    /\ UNCHANGED <<idx, loadArgs, loadOut, DEFAULT_STACK, wf, conn>>

\* What delete_by_query may do.
QueryOutcomes == {"ok", "raise"}

\* Lines 291-296, truncate(index) on the handle st: self._es is read as it
\* is, not through the property es.
TruncateCall(st, index, q) ==
    IF st._es = NoneObj
    THEN [raised |-> "AttributeError", calls |-> <<>>]
    ELSE [raised |-> IF q = "raise" THEN "query error" ELSE NoneVal,
          calls |-> <<[op |-> "delete_by_query", index |-> index,
                       query |-> "match_all"]>>]

\* stacks[h].truncate(index); `out` records the calls issued to the engine.
Truncate(h, index, q) ==
    /\ LET r == TruncateCall(stacks[h], index, q)
       IN  out' = [op |-> "truncate", self |-> h, index |-> index,
                   raised |-> r.raised, calls |-> r.calls,
                   before |-> stacks[h]._es,
                   query |-> Called(stacks[h]._es # NoneObj, q)]
    /\ UNCHANGED <<idx, loadArgs, loadOut, stacks, DEFAULT_STACK, wf, conn>>

Next ==
    \/ \E kw \in 0..MaxRetries, d \in BOOLEAN : NewElasticStack(kw, d)
    \/ \E h \in 1..Len(stacks) : \E p \in ProbeEnvs(stacks[h]) : Alive(h, p)
    \/ \E es \in Refs \cup {NoneObj} : SetDefaultStack(es)
    \/ DefaultStack
    \/ \E h \in 1..Len(stacks), q \in QueryOutcomes :
           Truncate(h, "texts", q)

Spec == Init /\ [][Next]_vars

(***************************************************************************)
(* Claims about alive and the default stack, checked under Spec.           *)
(***************************************************************************)
AliveReturned == out.op = "alive" /\ ~out.raised

\* C5: when alive() returns, the client's max_retries equals the value it
\* had immediately before the call, whether the ping succeeded, returned
\* false or raised, or the dashboard check raised.  For a client created by
\* the call's first use, the value before is the one it was created with.
C5_RetriesRestored ==
    AliveReturned =>
        LET st == stacks[out.self]
        IN  /\ out.before # NoneObj =>
                  st._es.max_retries = out.before.max_retries
            /\ (out.before = NoneObj /\ out.ctor = "ok") =>
                  st._es.max_retries = st._elasticKwargs.max_retries

C5_Witness ==
    /\ AliveReturned
    /\ out.before # NoneObj
    /\ out.before.max_retries = 2
    /\ out.ping = "raise"
    /\ stacks[out.self]._es.max_retries = 2

\* C6: alive() never raises; it returns a boolean, and true only if both the
\* engine ping and the dashboard check succeeded.
C6_AliveNeverRaises ==
    out.op = "alive" =>
        /\ ~out.raised
        /\ out.result \in BOOLEAN
        /\ out.result => (out.ping = "true" /\ out.kib = "true")

\* C10: defaultStack() returns the handle most recently passed to
\* setDefaultStack, or, if none was set, a handle it creates and keeps; it
\* does not raise.
C10_DefaultStackReturns ==
    out.op = "defaultStack" =>
        /\ out.raised = NoneVal
        /\ out.result \in Refs
        /\ out.result = DEFAULT_STACK
        /\ out.before # NoneObj => out.result = out.before

\* C17: truncate(index) on a handle in any state, a fresh one included,
\* issues exactly one delete-by-query with a match-all query against that
\* index, and no index delete, create or mapping call.
C17_TruncateOneQuery ==
    out.op = "truncate" =>
        out.calls = <<[op |-> "delete_by_query", index |-> out.index,
                       query |-> "match_all"]>>

(***************************************************************************)
(* waitFor, lines 137-147, on the handle stacks[1].  Time is counted in    *)
(* clock ticks since `start`; timeout and interval are given in ticks.     *)
(***************************************************************************)
SecondsPerDay == 86400

\* Line 141: (datetime.now() - start).seconds, the seconds field of a
\* timedelta: whole seconds, without the days.
Seconds(elapsed) == (elapsed \div TicksPerSec) % SecondsPerDay

\* Line 141: timeout <= 0 or (datetime.now() - start).seconds < timeout
LoopCond(timeout, elapsed) ==
    timeout <= 0 \/ Seconds(elapsed) * TicksPerSec < timeout

Timeouts ==
    { 0 - TicksPerSec, 0, TicksPerSec \div 5, TicksPerSec + TicksPerSec \div 2,
      2 * SecondsPerDay * TicksPerSec }

Intervals ==
    { TicksPerSec \div 20, TicksPerSec \div 2, 6 * 3600 * TicksPerSec }

\* ElasticStack() as connect_elastic and defaultStack create it: no client
\* keyword arguments, so the client gets the library's retry value.
DefaultKwRetries == OrigMaxRetries

InitWait ==
    /\ stacks = <<NewStackFields(DefaultKwRetries)>>
    /\ DEFAULT_STACK = Ref(1)
    /\ out = IdleOut
    /\ wf = IdleWf
    /\ conn = IdleConn
    /\ idx = IdleIdx
    /\ loadArgs = NoneObj
    /\ loadOut = IdleLoad

\* Lines 137-140: the call; start = datetime.now().
WaitForCall(timeout, interval, raise_error) ==
    /\ wf.pc = "idle"
    /\ wf' = [pc |-> "loop", timeout |-> timeout, interval |-> interval,
              raise_error |-> raise_error, elapsed |-> 0, polls |-> 0,
              lastPollAt |-> 0, result |-> FALSE, error |-> NoneVal]
    /\ UNCHANGED <<idx, loadArgs, loadOut, stacks, DEFAULT_STACK, out, conn>>

\* Lines 141-144: one turn of the loop.  The alive() call takes d ticks; an
\* exception it raises leaves waitFor.
WaitForPoll(d, p) ==
    /\ wf.pc = "loop"
    /\ wf.polls < MaxPolls
    /\ LoopCond(wf.timeout, wf.elapsed)
    /\ LET r == AliveCall(stacks[1], p.c1, p.c2, p.ping, p.kib)
           w == [wf EXCEPT !.polls = wf.polls + 1, !.lastPollAt = wf.elapsed]
       IN  /\ stacks' = [stacks EXCEPT ![1] = r.stack]
           /\ wf' = IF r.raised
                    THEN [w EXCEPT !.pc = "raised", !.error = "alive",
                                   !.elapsed = wf.elapsed + d]
                    ELSE IF r.result
                    THEN [w EXCEPT !.pc = "returned", !.result = TRUE,
                                   !.elapsed = wf.elapsed + d]
                    ELSE [w EXCEPT !.elapsed = wf.elapsed + d + wf.interval]
    /\ UNCHANGED <<idx, loadArgs, loadOut, DEFAULT_STACK, out, conn>>

\* Lines 145-147: the loop condition is false.
WaitForExit ==
    /\ wf.pc = "loop"
    /\ ~LoopCond(wf.timeout, wf.elapsed)
    /\ wf' = IF wf.raise_error
             THEN [wf EXCEPT !.pc = "raised", !.error = "RuntimeError"]
             ELSE [wf EXCEPT !.pc = "returned", !.result = FALSE]
    /\ UNCHANGED <<idx, loadArgs, loadOut, stacks, DEFAULT_STACK, out, conn>>

NextWait ==
    \/ \E t \in Timeouts, i \in Intervals, e \in BOOLEAN : WaitForCall(t, i, e)
    \/ \E d \in 0..MaxAliveTicks, p \in ProbeEnvs(stacks[1]) : WaitForPoll(d, p)
    \/ WaitForExit

SpecWait == InitWait /\ [][NextWait]_vars

(***************************************************************************)
(* Claims about waitFor, checked under SpecWait.  A call that is still in  *)
(* its loop, or has returned false, has met a dead stack at every poll.    *)
(***************************************************************************)
DeadSoFar == wf.pc = "loop" \/ (wf.pc = "returned" /\ ~wf.result)

\* C8: waitFor polls alive() only until `timeout` has elapsed, also for a
\* timeout below one second: against a dead stack no poll starts once the
\* timeout has elapsed, so timeout=0.2 s and interval=0.05 s give about
\* timeout/interval = 4 polls.
C8_NoPollAfterTimeout ==
    (DeadSoFar /\ wf.timeout > 0 /\ wf.polls > 0) =>
        /\ wf.lastPollAt < wf.timeout
        /\ wf.polls <= wf.timeout \div wf.interval + 1

\* The part of C9 that an exception of alive() does not touch: with a
\* positive timeout the loop ends once the timeout has elapsed.
WaitEndsAfterTimeout ==
    (wf.pc = "loop" /\ wf.timeout > 0 /\ wf.elapsed >= wf.timeout + TicksPerSec)
        => ~LoopCond(wf.timeout, wf.elapsed)

\* C9: waitFor returns true as soon as a poll succeeds; with a positive
\* timeout and a dead stack it ends once the timeout has elapsed, returning
\* false unless raise_error is set and raising only if it is set; with a
\* non-positive timeout and a dead stack it never returns.
C9_WaitForOutcome ==
    /\ wf.pc = "raised" => wf.raise_error
    /\ (wf.pc = "returned" /\ wf.timeout <= 0) => wf.result
    /\ (wf.pc = "returned" /\ wf.timeout > 0 /\ ~wf.result) => ~wf.raise_error
    /\ WaitEndsAfterTimeout

(***************************************************************************)
(* connect_elastic, lines 15-94.  The two calls into the docker module     *)
(* are modelled by what they may hand back.                                *)
(***************************************************************************)
\* docker.elasticStackFromDocker(containerPrefix, setAsDefaultStack=False):
\* None, or a handle that is not made the default stack.
LookupOutcomes == {"none", "found"}

\* docker.start_elastic_on_docker(...): a handle (made the default stack, as
\* ElasticStack does unless told otherwise) of a stack that is up or not,
\* None, or an exception.
LaunchOutcomes ==
    { [ret |-> "handle", live |-> TRUE], [ret |-> "handle", live |-> FALSE],
      [ret |-> "none", live |-> FALSE], [ret |-> "raise", live |-> FALSE] }

ConnResult(made, default, raised, result, live, tiers) ==
    [made |-> made, default |-> default, raised |-> raised, result |-> result,
     live |-> live, tiers |-> tiers]

\* Lines 71-76 and 86-92: no stack was found and none is started.
NotAvailable(a, made, default, tiers) ==
    IF a.failOnNotAvailable
    THEN ConnResult(made, default, "RuntimeError", NoneObj, FALSE, tiers)
    ELSE ConnResult(made, default, NoneVal, NoneObj, FALSE, tiers)

\* Lines 82-85 and 93-94: the launch; what it hands back is returned as is.
Launch(a, n, made, default, tiers, ln) ==
    LET t == Append(tiers, "launch")
    IN  CASE ln.ret = "raise" ->
               ConnResult(made, default, "launch error", NoneObj, FALSE, t)
          [] ln.ret = "none" ->
               ConnResult(made, default, NoneVal, NoneObj, FALSE, t)
          [] ln.ret = "handle" ->
               ConnResult(Append(made, NewStackFields(DefaultKwRetries)),
                          Ref(n + Len(made) + 1), NoneVal,
                          Ref(n + Len(made) + 1), ln.live, t)

\* The lookup with startOnDocker tested before the found stack's alive().
ViaDockerLaunchAnyway(a, n, made, default, tiers, lk, p2, ln) ==
    LET t == Append(tiers, "lookup")
    IN  IF lk = "none"
        THEN IF a.startOnDocker THEN Launch(a, n, made, default, t, ln)
             ELSE NotAvailable(a, made, default, t)
        ELSE LET r == AliveCall(NewStackFields(DefaultKwRetries),
                                p2.c1, p2.c2, p2.ping, p2.kib)
                 m == Append(made, r.stack)
                 me == Ref(n + Len(m))
                 t2 == Append(t, "alive")
             IN  IF r.raised
                 THEN ConnResult(m, default, "alive error", NoneObj, FALSE, t2)
                 ELSE IF a.startOnDocker THEN Launch(a, n, m, default, t2, ln)
                 ELSE IF r.result
                 THEN ConnResult(m, default, NoneVal, me, TRUE, t2)
                 ELSE NotAvailable(a, m, default, t2)

\* Lines 78-94: the container lookup and what follows it.
ViaDocker(a, n, made, default, tiers, lk, p2, ln) ==
    LET t == Append(tiers, "lookup")
    IN  IF lk = "none"
        THEN IF a.startOnDocker THEN Launch(a, n, made, default, t, ln)
             ELSE NotAvailable(a, made, default, t)
        ELSE LET r == AliveCall(NewStackFields(DefaultKwRetries),
                                p2.c1, p2.c2, p2.ping, p2.kib)
                 m == Append(made, r.stack)
                 me == Ref(n + Len(m))
                 t2 == Append(t, "alive")
             IN  IF r.raised
                 THEN ConnResult(m, default, "alive error", NoneObj, FALSE, t2)
                 ELSE IF r.result
                 THEN ConnResult(m, default, NoneVal, me, TRUE, t2)
                 ELSE IF a.startOnDocker THEN Launch(a, n, m, default, t2, ln)
                 ELSE NotAvailable(a, m, default, t2)

\* Lines 61-94, connect_elastic, with n handles existing before the call.
\* The result names the handles made, the default stack after the call,
\* what was raised or returned, whether the returned stack is up, and the
\* tiers tried in order.
ConnectCall(a, n, p1, lk, p2, ln) ==
    LET r == AliveCall(NewStackFields(DefaultKwRetries),
                       p1.c1, p1.c2, p1.ping, p1.kib)
        made == <<r.stack>>
        me == Ref(n + 1)
        t == <<"probe">>
    IN  IF r.raised
        THEN ConnResult(made, me, "alive error", NoneObj, FALSE, t)
        ELSE IF r.result
        THEN ConnResult(made, me, NoneVal, me, TRUE, t)
        ELSE IF a.dockerPrefix = NoneVal
        THEN NotAvailable(a, made, me, t)
        ELSE ViaDocker(a, n, made, me, t, lk, p2, ln)

ConnArgs ==
    [dockerPrefix : {NoneVal, "nlp"}, startOnDocker : BOOLEAN,
     failOnNotAvailable : BOOLEAN]

InitConnect ==
    /\ stacks = <<>>
    /\ DEFAULT_STACK = NoneObj
    /\ out = IdleOut
    /\ wf = IdleWf
    /\ conn \in { [pc |-> "ready", args |-> a] : a \in ConnArgs }
    /\ idx = IdleIdx
    /\ loadArgs = NoneObj
    /\ loadOut = IdleLoad

\* What the collaborators did in the call, for those that were called.
MetProbe(reached, p) ==
    [ctor |-> Called(reached, p.c1),
     ctorAgain |-> Called(reached /\ p.c1 = "raise", p.c2),
     ping |-> Called(reached /\ p.c1 = "ok", p.ping),
     kib |-> Called(reached /\ p.c1 = "ok" /\ p.ping = "true", p.kib)]

Tried(tiers, tier) == \E k \in 1..Len(tiers) : tiers[k] = tier

Met(tiers, p1, lk, p2, ln) ==
    [probe |-> MetProbe(TRUE, p1),
     lookup |-> Called(Tried(tiers, "lookup"), lk),
     lookupProbe |-> MetProbe(Tried(tiers, "alive"), p2),
     launch |-> Called(Tried(tiers, "launch"), ln.ret)]

\* connect_elastic(dockerPrefix, startOnDocker, failOnNotAvailable) as one
\* step, in the environment (p1, lk, p2, ln).
ConnectElastic(p1, lk, p2, ln) ==
    /\ conn.pc = "ready"
    /\ LET r == ConnectCall(conn.args, Len(stacks), p1, lk, p2, ln)
       IN  /\ stacks' = stacks \o r.made
           /\ DEFAULT_STACK' = r.default
           /\ conn' = [pc |-> "done", args |-> conn.args, raised |-> r.raised,
                       result |-> r.result, live |-> r.live, tiers |-> r.tiers,
                       met |-> Met(r.tiers, p1, lk, p2, ln)]
    /\ UNCHANGED <<idx, loadArgs, loadOut, out, wf>>

NextConnect ==
    \E p1 \in ProbeEnvs(NewStackFields(DefaultKwRetries)), lk \in LookupOutcomes,
       p2 \in ProbeEnvs(NewStackFields(DefaultKwRetries)),
       ln \in LaunchOutcomes : ConnectElastic(p1, lk, p2, ln)

SpecConnect == InitConnect /\ [][NextConnect]_vars

(***************************************************************************)
(* Claims about connect_elastic, checked under SpecConnect.                *)
(***************************************************************************)
ConnReturned == conn.pc = "done" /\ conn.raised = NoneVal

\* C7: with failOnNotAvailable set connect_elastic never returns without a
\* live stack: where no stack resolves it raises; with failOnNotAvailable
\* unset it returns None there.
C7_FailOrLiveStack ==
    ConnReturned =>
        \/ conn.result # NoneObj /\ conn.live
        \/ conn.result = NoneObj /\ ~conn.args.failOnNotAvailable

\* alive() of a probe returned True.
ProbedAlive(m) == m.ping = "true" /\ m.kib = "true"

\* C15: connect_elastic follows the three tiers in order.  If the direct
\* probe is alive the probed handle is returned and neither lookup nor
\* launch is issued; the lookup is issued only after the direct probe failed
\* and with a container prefix; a launch is issued only after the lookup
\* gave no stack or one that is not alive, and only with startOnDocker; at
\* most one launch is issued.
C15_ThreeTierOrder ==
    conn.pc = "done" =>
        /\ conn.tiers \in
               { <<"probe">>, <<"probe", "lookup">>,
                 <<"probe", "lookup", "alive">>,
                 <<"probe", "lookup", "launch">>,
                 <<"probe", "lookup", "alive", "launch">> }
        /\ ProbedAlive(conn.met.probe) =>
               /\ conn.tiers = <<"probe">>
               /\ conn.raised = NoneVal
               /\ conn.result = Ref(1)
        /\ Tried(conn.tiers, "lookup") =>
               /\ ~ProbedAlive(conn.met.probe)
               /\ conn.args.dockerPrefix # NoneVal
        /\ Tried(conn.tiers, "launch") =>
               /\ conn.args.startOnDocker
               /\ \/ conn.met.lookup = "none"
                  \/ /\ conn.met.lookup = "found"
                     /\ ~ProbedAlive(conn.met.lookupProbe)

\* All three tiers were tried: the direct probe failed, the stack found by
\* the lookup was not alive, and a stack was launched.
C15_Witness ==
    /\ conn.pc = "done"
    /\ conn.tiers = <<"probe", "lookup", "alive", "launch">>
    /\ conn.met.launch = "handle"

\* C19: whenever connect_elastic returns a handle, the process-wide default
\* stack is the returned handle, on every path: direct probe alive, stack
\* found by the container lookup, stack started by the launch.
C19_ReturnedIsDefault ==
    (ConnReturned /\ conn.result # NoneObj) => DEFAULT_STACK = conn.result

(***************************************************************************)
(* createIndex and getAnalysis, lines 164-264.                             *)
(* A dict whose key order matters is a sequence of [key, value] pairs in   *)
(* insertion order.  A str that is compared or taken apart is the sequence *)
(* of its characters.                                                      *)
(***************************************************************************)
DictKeys(d) == [k \in 1..Len(d) |-> d[k].key]

DictHas(d, key) == \E k \in 1..Len(d) : d[k].key = key

DictGet(d, key) == d[CHOOSE k \in 1..Len(d) : d[k].key = key].value

\* d[key] = value
DictSet(d, key, value) ==
    IF DictHas(d, key)
    THEN [k \in 1..Len(d) |-> IF d[k].key = key
                              THEN [key |-> key, value |-> value] ELSE d[k]]
    ELSE Append(d, [key |-> key, value |-> value])

List(items) == [kind |-> "list", items |-> items]

\* The code point of a character of a version number.
Ord(c) ==
    CASE c = "." -> 46 [] c = "0" -> 48 [] c = "1" -> 49 [] c = "2" -> 50
      [] c = "3" -> 51 [] c = "4" -> 52 [] c = "5" -> 53 [] c = "6" -> 54
      [] c = "7" -> 55 [] c = "8" -> 56 [] c = "9" -> 57

\* a < b of two Python str: lexicographic by code point, a proper prefix
\* being the smaller.
RECURSIVE StrLess(_, _)
StrLess(a, b) ==
    IF b = <<>> THEN FALSE
    ELSE IF a = <<>> THEN TRUE
    ELSE IF Ord(Head(a)) < Ord(Head(b)) THEN TRUE
    ELSE IF Ord(Head(a)) > Ord(Head(b)) THEN FALSE
    ELSE StrLess(Tail(a), Tail(b))

\* Line 221: the literal '7'.
VersionLimit == <<"7">>

\* Line 221: self.es.info()['version']['number'] < '7'
BelowLimit(number) == StrLess(number, VersionLimit)

\* getAnalysis with lowercase put in the chain before the possessive stemmer.
GetAnalysisLowercaseFirst(lang, synonyms) ==
    LET names0 == <<"lowercase">>
        names1 == IF lang = "english"
                  THEN Append(names0, "english_possessive_stemmer") ELSE names0
        filters0 ==
            << [key |-> lang \o "_stop",
                value |-> [type |-> "stop", stopwords |-> "_" \o lang \o "_"]],
               [key |-> lang \o "_stemmer",
                value |-> [type |-> "stemmer", language |-> lang]] >>
        names2 == names1 \o DictKeys(filters0)
        filters1 ==
            IF lang = "english"
            THEN DictSet(filters0, "english_possessive_stemmer",
                         [type |-> "stemmer", language |-> "possessive_english"])
            ELSE filters0
        filters2 ==
            IF synonyms # NoneObj
            THEN DictSet(filters1, lang \o "_synonym",
                         [type |-> "synonym", synonyms |-> synonyms.items])
            ELSE filters1
        names3 ==
            IF synonyms # NoneObj
            THEN Append(names2, lang \o "_synonym") ELSE names2
        analyzer ==
            << [key |-> lang \o "_syn",
                value |-> [tokenizer |-> "standard", filter |-> names3]] >>
    IN  [filters |-> filters2, analyzer |-> analyzer]

\* getAnalysis with the synonym filter defined under a key other than the
\* name put in the chain.
GetAnalysisSynonymKey(lang, synonyms) ==
    LET names0 == IF lang = "english"
                  THEN <<"english_possessive_stemmer">> ELSE <<>>
        names1 == Append(names0, "lowercase")
        filters0 ==
            << [key |-> lang \o "_stop",
                value |-> [type |-> "stop", stopwords |-> "_" \o lang \o "_"]],
               [key |-> lang \o "_stemmer",
                value |-> [type |-> "stemmer", language |-> lang]] >>
        names2 == names1 \o DictKeys(filters0)
        filters1 ==
            IF lang = "english"
            THEN DictSet(filters0, "english_possessive_stemmer",
                         [type |-> "stemmer", language |-> "possessive_english"])
            ELSE filters0
        filters2 ==
            IF synonyms # NoneObj
            THEN DictSet(filters1, lang \o "_synonyms",
                         [type |-> "synonym", synonyms |-> synonyms.items])
            ELSE filters1
        names3 ==
            IF synonyms # NoneObj
            THEN Append(names2, lang \o "_synonym") ELSE names2
        analyzer ==
            << [key |-> lang \o "_syn",
                value |-> [tokenizer |-> "standard", filter |-> names3]] >>
    IN  [filters |-> filters2, analyzer |-> analyzer]

\* Lines 164-200, getAnalysis.  synonyms is NoneObj or a list.
GetAnalysis(lang, synonyms) ==
    LET names0 == IF lang = "english"
                  THEN <<"english_possessive_stemmer">> ELSE <<>>
        names1 == Append(names0, "lowercase")
        filters0 ==
            << [key |-> lang \o "_stop",
                value |-> [type |-> "stop", stopwords |-> "_" \o lang \o "_"]],
               [key |-> lang \o "_stemmer",
                value |-> [type |-> "stemmer", language |-> lang]] >>
        names2 == names1 \o DictKeys(filters0)
        filters1 ==
            IF lang = "english"
            THEN DictSet(filters0, "english_possessive_stemmer",
                         [type |-> "stemmer", language |-> "possessive_english"])
            ELSE filters0
        filters2 ==
            IF synonyms # NoneObj
            THEN DictSet(filters1, lang \o "_synonym",
                         [type |-> "synonym", synonyms |-> synonyms.items])
            ELSE filters1
        names3 ==
            IF synonyms # NoneObj
            THEN Append(names2, lang \o "_synonym") ELSE names2
        analyzer ==
            << [key |-> lang \o "_syn",
                value |-> [tokenizer |-> "standard", filter |-> names3]] >>
    IN  [filters |-> filters2, analyzer |-> analyzer]

\* Lines 209-215: for k in cols: properties[k] = entry
RECURSIVE SetAll(_, _, _)
SetAll(d, cols, entry) ==
    IF cols = <<>> THEN d
    ELSE SetAll(DictSet(d, Head(cols), entry), Tail(cols), entry)

\* The properties with the tag loop run before the text loop.
PropertiesTagFirst(a) ==
    LET p1 == SetAll(<<>>, a.tagCols, [type |-> "keyword"])
        p2 == SetAll(p1, a.textCols,
                     [type |-> "text", fielddata |-> TRUE,
                      analyzer |-> a.lang \o "_syn"])
        p3 == SetAll(p2, a.geoPointCols, [type |-> "geo_point"])
    IN  DictSet(p3, "suggest", [type |-> "completion"])

\* Lines 208-216: the properties of the mapping.
Properties(a) ==
    LET p1 == SetAll(<<>>, a.textCols,
                     [type |-> "text", fielddata |-> TRUE,
                      analyzer |-> a.lang \o "_syn"])
        p2 == SetAll(p1, a.tagCols, [type |-> "keyword"])
        p3 == SetAll(p2, a.geoPointCols, [type |-> "geo_point"])
    IN  DictSet(p3, "suggest", [type |-> "completion"])

\* Lines 217-222: the mapping, nested under doctype for an old engine.
Mapping(a, number) ==
    LET mapping == <<[key |-> "properties", value |-> Properties(a)]>>
    IN  IF BelowLimit(number)
        THEN <<[key |-> a.doctype, value |-> mapping]>>
        ELSE mapping

\* Line 205: synonyms=[] unless the caller passes the argument.
SynonymsArg(a) == IF a.synonyms.passed THEN a.synonyms.value ELSE List(<<>>)

\* Lines 224-253: the body of the create call.
IndexBody(a, number) ==
    LET an == GetAnalysis(a.lang, SynonymsArg(a))
    IN  [settings |-> [analysis |-> [filter |-> an.filters,
                                     analyzer |-> an.analyzer]],
         mappings |-> Mapping(a, number)]

\* Lines 256-260: the delete of the old index; an exception is swallowed.
DeleteFirst(a, e) ==
    IF a.deleteOld
    THEN <<[op |-> "delete", index |-> a.index, failed |-> e.delete = "raise"]>>
    ELSE <<>>

IndexResult(stack, calls, raised, result) ==
    [stack |-> stack, calls |-> calls, raised |-> raised, result |-> result]

\* createIndex without the try around the delete: its exception propagates.
CreateIndexCallDeleteRaises(st, a, e) ==
    LET c == Es(st, e.ctor)
    IN  IF c.raised THEN IndexResult(st, <<>>, "ctor error", NoneObj)
        ELSE IF e.info.raised
        THEN IndexResult(c.stack, <<>>, "info error", NoneObj)
        ELSE IF a.create
        THEN LET body == IndexBody(a, e.info.number)
                 deleted == DeleteFirst(a, e)
                 calls == deleted \o
                          <<[op |-> "create", index |-> a.index, body |-> body,
                             failed |-> e.create = "raise"]>>
             IN  IF deleted # <<>> /\ deleted[1].failed
                 THEN IndexResult(c.stack, deleted, "delete error", NoneObj)
                 ELSE IF e.create = "raise"
                 THEN IndexResult(c.stack, calls, "create error", NoneObj)
                 ELSE IndexResult(c.stack, calls, NoneVal, body)
        ELSE LET calls == <<[op |-> "put_mapping", index |-> a.index,
                             doc_type |-> a.doctype,
                             body |-> Mapping(a, e.info.number),
                             failed |-> e.put = "raise"]>>
             IN  IF e.put = "raise"
                 THEN IndexResult(c.stack, calls, "put_mapping error", NoneObj)
                 ELSE IndexResult(c.stack, calls, NoneVal, NoneObj)

\* Lines 204-264, createIndex on the handle st with the arguments a, in the
\* environment e: what the client's constructor, info(), and the delete,
\* create and put_mapping calls do.
CreateIndexCall(st, a, e) ==
    LET c == Es(st, e.ctor)
    IN  IF c.raised THEN IndexResult(st, <<>>, "ctor error", NoneObj)
        ELSE IF e.info.raised
        THEN IndexResult(c.stack, <<>>, "info error", NoneObj)
        ELSE IF a.create
        THEN LET body == IndexBody(a, e.info.number)
                 calls == DeleteFirst(a, e) \o
                          <<[op |-> "create", index |-> a.index, body |-> body,
                             failed |-> e.create = "raise"]>>
             IN  IF e.create = "raise"
                 THEN IndexResult(c.stack, calls, "create error", NoneObj)
                 ELSE IndexResult(c.stack, calls, NoneVal, body)
        ELSE LET calls == <<[op |-> "put_mapping", index |-> a.index,
                             doc_type |-> a.doctype,
                             body |-> Mapping(a, e.info.number),
                             failed |-> e.put = "raise"]>>
             IN  IF e.put = "raise"
                 THEN IndexResult(c.stack, calls, "put_mapping error", NoneObj)
                 ELSE IndexResult(c.stack, calls, NoneVal, NoneObj)

\* The version numbers an engine reports.
Versions ==
    { <<"5", ".", "6">>, <<"6", ".", "8">>, <<"7">>, <<"7", ".", "1">>,
      <<"1", "0", ".", "0">> }

CallOutcomes == {"ok", "raise"}

InfoOutcomes ==
    {[raised |-> TRUE, number |-> <<>>]} \cup
    {[raised |-> FALSE, number |-> v] : v \in Versions}

\* The environments of one createIndex call with the arguments a.  A call
\* that createIndex does not make is given one fixed outcome.
IndexEnvs(a) ==
    { e \in [ctor : CtorOutcomes, info : InfoOutcomes, delete : CallOutcomes,
             create : CallOutcomes, put : CallOutcomes] :
        /\ e.ctor = "raise" => e.info.raised
        /\ (e.info.raised \/ ~a.create \/ ~a.deleteOld) => e.delete = "ok"
        /\ (e.info.raised \/ ~a.create) => e.create = "ok"
        /\ (e.info.raised \/ a.create) => e.put = "ok" }

ColLists == { <<>>, <<"a">>, <<"b">>, <<"a", "b">>, <<"suggest">> }

SynonymArgs ==
    { [passed |-> FALSE, value |-> NoneObj],
      [passed |-> TRUE, value |-> NoneObj],
      [passed |-> TRUE, value |-> List(<<>>)],
      [passed |-> TRUE, value |-> List(<<"tv, television">>)] }

IndexArgs ==
    [index : {"texts"}, doctype : {"_doc"}, create : BOOLEAN,
     textCols : ColLists, tagCols : ColLists, geoPointCols : ColLists,
     synonyms : SynonymArgs, lang : {"english", "german"},
     deleteOld : BOOLEAN]

InitIndex ==
    /\ stacks = <<NewStackFields(DefaultKwRetries)>>
    /\ DEFAULT_STACK = Ref(1)
    /\ out = IdleOut
    /\ wf = IdleWf
    /\ conn = IdleConn
    /\ idx \in { [pc |-> "ready", args |-> a] : a \in IndexArgs }
    /\ loadArgs = NoneObj
    /\ loadOut = IdleLoad

\* stacks[1].createIndex(**idx.args) as one step, in the environment e.
CreateIndex(e) ==
    /\ idx.pc = "ready"
    /\ LET r == CreateIndexCall(stacks[1], idx.args, e)
       IN  /\ stacks' = [stacks EXCEPT ![1] = r.stack]
           /\ idx' = [pc |-> "done", args |-> idx.args, calls |-> r.calls,
                      raised |-> r.raised, result |-> r.result,
                      number |-> e.info.number]
    /\ UNCHANGED <<loadArgs, loadOut, DEFAULT_STACK, out, wf, conn>>

NextIndex == \E e \in IndexEnvs(idx.args) : CreateIndex(e)

SpecIndex == InitIndex /\ [][NextIndex]_vars

\* createIndex got as far as sending the mapping to the engine.
IndexSent == idx.pc = "done" /\ idx.calls # <<>>

\* The mapping the call sent: in the body of create, or the body of
\* put_mapping.
SentMapping ==
    LET c == idx.calls[Len(idx.calls)]
    IN  IF c.op = "create" THEN c.body.mappings ELSE c.body

\* The major version of a version number: the digits before the first dot,
\* read as a decimal number.
RECURSIVE MajorOf(_, _)
MajorOf(v, acc) ==
    IF v = <<>> \/ Head(v) = "." THEN acc
    ELSE MajorOf(Tail(v), 10 * acc + (Ord(Head(v)) - Ord("0")))

Major(v) == MajorOf(v, 0)

MajorLimit == 7

\* C11: the mapping sent by createIndex is nested under the document-type
\* key exactly when the major version the engine reports is below 7, for
\* every version number including two-digit majors; otherwise it is the
\* un-nested {properties: ...} object.
C11_NestedIffOldMajor ==
    IndexSent =>
        IF Major(idx.number) < MajorLimit
        THEN DictKeys(SentMapping) = <<idx.args.doctype>>
        ELSE DictKeys(SentMapping) = <<"properties">>

\* The properties inside the mapping the call sent.
SentProperties ==
    LET m == IF DictHas(SentMapping, idx.args.doctype)
             THEN DictGet(SentMapping, idx.args.doctype) ELSE SentMapping
    IN  DictGet(m, "properties")

Elems(seq) == {seq[k] : k \in 1..Len(seq)}

TextCols == Elems(idx.args.textCols)

TagCols == Elems(idx.args.tagCols)

GeoPointCols == Elems(idx.args.geoPointCols)

TextEntry ==
    [type |-> "text", fielddata |-> TRUE, analyzer |-> idx.args.lang \o "_syn"]

\* The properties hold exactly one entry per declared column and one for
\* "suggest".
OneEntryPerColumn ==
    /\ Elems(DictKeys(SentProperties)) =
           TextCols \cup TagCols \cup GeoPointCols \cup {"suggest"}
    /\ \A j, k \in 1..Len(SentProperties) :
           SentProperties[j].key = SentProperties[k].key => j = k

\* C12 as stated: for all declarations of the three roles, empty or
\* overlapping, the properties hold exactly one entry per declared column
\* plus "suggest" of type completion, and every declared column's entry has
\* the type of its role.
C12_EntryPerRole ==
    IndexSent =>
        /\ OneEntryPerColumn
        /\ DictGet(SentProperties, "suggest") = [type |-> "completion"]
        /\ \A c \in TextCols : DictGet(SentProperties, c) = TextEntry
        /\ \A c \in TagCols : DictGet(SentProperties, c) = [type |-> "keyword"]
        /\ \A c \in GeoPointCols :
               DictGet(SentProperties, c) = [type |-> "geo_point"]

\* C12 amended: the properties hold exactly one entry per declared column
\* plus "suggest"; "suggest" is of type completion; every other declared
\* column has the type of the last role that declares it, in the order
\* text, tag, geo-point.
C12_EntryOfLastRole ==
    IndexSent =>
        /\ OneEntryPerColumn
        /\ \A c \in Elems(DictKeys(SentProperties)) :
               DictGet(SentProperties, c) =
                   IF c = "suggest" THEN [type |-> "completion"]
                   ELSE IF c \in GeoPointCols THEN [type |-> "geo_point"]
                   ELSE IF c \in TagCols THEN [type |-> "keyword"]
                   ELSE TextEntry

\* A call was made with a column declared both text and tag (and not
\* geo-point), and with the column named "suggest" declared.
C12_Witness ==
    /\ IndexSent
    /\ (TextCols \cap TagCols) \ GeoPointCols # {}
    /\ "suggest" \in TextCols \cup TagCols \cup GeoPointCols

\* createIndex issued the create call.
IndexCreated ==
    /\ idx.pc = "done"
    /\ \E k \in 1..Len(idx.calls) : idx.calls[k].op = "create"

\* The body of the create call.
CreateBody ==
    idx.calls[CHOOSE k \in 1..Len(idx.calls) : idx.calls[k].op = "create"].body

FilterDefs == CreateBody.settings.analysis.filter

AnalyzerDefs == CreateBody.settings.analysis.analyzer

\* The filter chain of the language analyzer that getAnalysis built.
FilterChain == DictGet(AnalyzerDefs, idx.args.lang \o "_syn").filter

\* getAnalysis was given synonyms.
SynonymsSupplied == SynonymsArg(idx.args) # NoneObj

\* C13: the filter chain built by getAnalysis has the fixed order
\* possessive-stemmer, lowercase, stop, stemmer, synonym; for "english" with
\* synonyms supplied it is exactly [english_possessive_stemmer, lowercase,
\* english_stop, english_stemmer, english_synonym]; for any other language
\* no possessive-stemmer is in the chain or in the filter definitions.
C13_FilterChainOrder ==
    IndexCreated =>
        LET lang == idx.args.lang
            possessive == IF lang = "english"
                          THEN <<"english_possessive_stemmer">> ELSE <<>>
            synonym == IF SynonymsSupplied
                       THEN <<lang \o "_synonym">> ELSE <<>>
        IN  /\ FilterChain =
                   possessive \o
                   <<"lowercase", lang \o "_stop", lang \o "_stemmer">> \o
                   synonym
            /\ (lang = "english" /\ SynonymsSupplied) =>
                   FilterChain = <<"english_possessive_stemmer", "lowercase",
                                   "english_stop", "english_stemmer",
                                   "english_synonym">>
            /\ lang # "english" =>
                   \A n \in Elems(FilterChain) \cup Elems(DictKeys(FilterDefs)) :
                       n \notin {"english_possessive_stemmer",
                                 lang \o "_possessive_stemmer"}

\* An index was created for "english" with a non-empty list of synonyms.
C13_Witness ==
    /\ IndexCreated
    /\ idx.args.lang = "english"
    /\ idx.args.synonyms.passed
    /\ idx.args.synonyms.value = List(<<"tv, television">>)
    /\ Len(FilterChain) = 5

\* C14: the synonym filter is defined and appended to the chain only if
\* synonyms are supplied: the body of an index created without the caller
\* passing any synonyms has no synonym filter definition and no synonym
\* entry in the filter chain.
C14_NoSynonymUnlessPassed ==
    (IndexCreated /\ ~idx.args.synonyms.passed) =>
        /\ ~DictHas(FilterDefs, idx.args.lang \o "_synonym")
        /\ idx.args.lang \o "_synonym" \notin Elems(FilterChain)

\* createIndex was called in create mode and got the engine's version.
CreateModeRan ==
    /\ idx.pc = "done"
    /\ idx.args.create
    /\ idx.raised \notin {"ctor error", "info error"}

\* The positions in the call log of the calls of one kind.
CallsOf(op) == {k \in 1..Len(idx.calls) : idx.calls[k].op = op}

\* C16: createIndex in create mode issues the create call exactly once, with
\* the built settings+mappings body, and returns that same body; with
\* deleteOld one delete of the same index is issued strictly before the
\* create, and its failure neither propagates nor prevents the create;
\* without deleteOld no delete is issued.
C16_CreateOnceAfterDelete ==
    CreateModeRan =>
        /\ Cardinality(CallsOf("create")) = 1
        /\ CallsOf("put_mapping") = {}
        /\ \A k \in CallsOf("create") :
               /\ idx.calls[k].index = idx.args.index
               /\ DOMAIN idx.calls[k].body = {"settings", "mappings"}
               /\ DOMAIN idx.calls[k].body.settings.analysis =
                      {"filter", "analyzer"}
               /\ idx.raised = NoneVal => idx.result = idx.calls[k].body
               /\ \A d \in CallsOf("delete") : d < k
        /\ idx.raised \in {NoneVal, "create error"}
        /\ idx.raised = "create error" =>
               \E k \in CallsOf("create") : idx.calls[k].failed
        /\ IF idx.args.deleteOld
           THEN /\ Cardinality(CallsOf("delete")) = 1
                /\ \A d \in CallsOf("delete") :
                       idx.calls[d].index = idx.args.index
           ELSE CallsOf("delete") = {}

\* An index was created and its body returned after the delete of the old
\* index had failed.
C16_Witness ==
    /\ CreateModeRan
    /\ idx.args.deleteOld
    /\ idx.calls[1].op = "delete" /\ idx.calls[1].failed
    /\ idx.raised = NoneVal
    /\ idx.result = CreateBody

\* createIndex returned a body.
BodyReturned == IndexCreated /\ idx.raised = NoneVal

\* The properties inside the mappings of the returned body.
ReturnedProperties ==
    LET m == IF DictHas(idx.result.mappings, idx.args.doctype)
             THEN DictGet(idx.result.mappings, idx.args.doctype)
             ELSE idx.result.mappings
    IN  DictGet(m, "properties")

\* The entries of text columns in the returned body.
TextEntries ==
    {k \in 1..Len(ReturnedProperties) : ReturnedProperties[k].value.type = "text"}

\* C20: every body returned by createIndex in create mode is
\* self-consistent: the analyzer named by each text column's entry is a key
\* of the body's analyzer definitions, and every name in that analyzer's
\* filter chain other than the built-in "lowercase" is a key of the body's
\* filter definitions.
C20_BodySelfConsistent ==
    BodyReturned =>
        LET analyzers == idx.result.settings.analysis.analyzer
            filters == idx.result.settings.analysis.filter
        IN  \A k \in TextEntries :
                LET name == ReturnedProperties[k].value.analyzer
                IN  /\ DictHas(analyzers, name)
                    /\ \A n \in Elems(DictGet(analyzers, name).filter) :
                           n # "lowercase" => DictHas(filters, n)

\* A body was returned for a german index with a text column and synonyms.
C20_Witness ==
    /\ BodyReturned
    /\ idx.args.lang = "german"
    /\ TextEntries # {}
    /\ "german_synonym" \in Elems(FilterChain)

(***************************************************************************)
(* One handle through its life: constructed, then alive, waitFor,          *)
(* createIndex and loadDocs called on it in any order, one at a time.      *)
(* The field `built` of the handle counts the clients constructed for it.  *)
(***************************************************************************)
InitClient == Init

\* The handle exists and no waitFor call on it is in progress.
HandleFree == Len(stacks) = 1 /\ wf.pc # "loop"

\* A further waitFor call on the handle, after an earlier one has ended.
WaitForAgain(timeout, interval, raise_error) ==
    /\ wf.pc \in {"returned", "raised"}
    /\ wf' = [pc |-> "loop", timeout |-> timeout, interval |-> interval,
              raise_error |-> raise_error, elapsed |-> 0, polls |-> 0,
              lastPollAt |-> 0, result |-> FALSE, error |-> NoneVal]
    /\ UNCHANGED <<idx, loadArgs, loadOut, stacks, DEFAULT_STACK, out, conn>>

\* stacks[1].createIndex(**a) as one step, in the environment e.
CreateIndexOn(a, e) ==
    /\ LET r == CreateIndexCall(stacks[1], a, e)
       IN  /\ stacks' = [stacks EXCEPT ![1] = r.stack]
           /\ idx' = [pc |-> "done", args |-> a, calls |-> r.calls,
                      raised |-> r.raised, result |-> r.result,
                      number |-> e.info.number]
    /\ UNCHANGED <<loadArgs, loadOut, DEFAULT_STACK, out, wf, conn>>

\* Lines 266-289, loadDocs on the handle st.  self.es is read for the delete
\* (line 272, inside the try) and for each upsert (line 285); cd and cu are
\* what the client's constructor does at the first and the second of these
\* places if it is run there.
LoadDocsCall(st, a, cd, cu) ==
    LET del == IF a.deleteOld THEN Es(st, cd)
               ELSE [raised |-> TRUE, stack |-> st]
        deleted == IF del.raised THEN <<>> ELSE DeleteOld(a)
        recs == EnumChunks(Chunker(a.texts, a.chunksize), 1, 0)
        e == Es(del.stack, cu)
    IN  IF recs = <<>>
        THEN [stack |-> del.stack, calls |-> deleted, raised |-> NoneVal]
        ELSE IF e.raised
        THEN [stack |-> del.stack, calls |-> deleted, raised |-> "ctor error"]
        ELSE LET r == LoadLoop(a, recs, 1)
             IN  [stack |-> e.stack, calls |-> deleted \o r.calls,
                  raised |-> r.raised]

\* stacks[1].loadDocs(**a) as one step.
LoadDocsOn(a, cd, cu) ==
    /\ LET r == LoadDocsCall(stacks[1], a, cd, cu)
       IN  /\ stacks' = [stacks EXCEPT ![1] = r.stack]
           /\ loadArgs' = a
           /\ loadOut' = [pc |-> "done", calls |-> r.calls, raised |-> r.raised]
    /\ UNCHANGED <<idx, DEFAULT_STACK, out, wf, conn>>

\* The calls made on the handle: a waitFor of one second polling every half
\* second, createIndex in both modes against a version 7 engine or one that
\* does not answer, loadDocs of no row or one row.
ClientTimeout == TicksPerSec

ClientInterval == TicksPerSec \div 2

ClientIndexArgs ==
    { [index |-> "texts", doctype |-> "_doc", create |-> c,
       textCols |-> <<"a">>, tagCols |-> <<>>, geoPointCols |-> <<>>,
       synonyms |-> [passed |-> FALSE, value |-> NoneObj],
       lang |-> "english", deleteOld |-> TRUE] : c \in BOOLEAN }

ClientIndexEnvs(a) ==
    { e \in IndexEnvs(a) : e.info.number \in {<<>>, <<"7">>} }

ClientLoadArgs ==
    { [texts |-> t, index |-> [k \in 1..Len(t) |-> LabelPool[k]],
       chunksize |-> 1, idCol |-> NoneVal, suggestCol |-> NoneVal,
       deleteOld |-> d, failing |-> {}] :
         t \in {<<>>, <<[id |-> "i", t |-> "x"]>>}, d \in BOOLEAN }

\* The constructor outcomes that loadDocs can meet on the handle st.
LoadEnvs(st, a) ==
    { c \in [cd : CtorOutcomes, cu : CtorOutcomes] :
        /\ (st._es # NoneObj \/ ~a.deleteOld) => c.cd = "ok"
        /\ (st._es # NoneObj \/ a.texts = <<>>) => c.cu = "ok"
        /\ (a.deleteOld /\ c.cd = "ok") => c.cu = "ok" }

NextClient ==
    \/ /\ stacks = <<>>
       /\ \E d \in BOOLEAN : NewElasticStack(DefaultKwRetries, d)
    \/ /\ HandleFree
       /\ \E p \in ProbeEnvs(stacks[1]) : Alive(1, p)
    \/ /\ HandleFree
       /\ \E e \in BOOLEAN :
              \/ WaitForCall(ClientTimeout, ClientInterval, e)
              \/ WaitForAgain(ClientTimeout, ClientInterval, e)
    \/ /\ wf.pc = "loop"
       /\ \E d \in 0..MaxAliveTicks, p \in ProbeEnvs(stacks[1]) :
              WaitForPoll(d, p)
    \/ WaitForExit
    \/ /\ HandleFree
       /\ \E a \in ClientIndexArgs :
              \E e \in ClientIndexEnvs(a) : CreateIndexOn(a, e)
    \/ /\ HandleFree
       /\ \E a \in ClientLoadArgs :
              \E c \in LoadEnvs(stacks[1], a) : LoadDocsOn(a, c.cd, c.cu)

SpecClient == InitClient /\ [][NextClient]_vars

\* The handle exists and holds a client.
HasClient == stacks # <<>> /\ stacks[1]._es # NoneObj

\* C18: for one handle, over any sequence of alive, waitFor, createIndex and
\* loadDocs calls, the client is not created at construction, is created by
\* the first operation that needs it, and is created at most once: every
\* later operation reuses the same client object.
C18_ClientLazyOnce ==
    [][ /\ (stacks = <<>> /\ stacks' # <<>>) =>
               (stacks'[1]._es = NoneObj /\ stacks'[1].built = 0)
        /\ (stacks # <<>> /\ ~HasClient /\ stacks'[1] # stacks[1]) =>
               (stacks'[1]._es # NoneObj /\ stacks'[1].built = 1)
        /\ (idx' # idx /\ idx'.raised # "ctor error") => HasClient'
        /\ (loadOut' # loadOut /\ Len(loadOut'.calls) > 0) => HasClient'
        /\ (out' # out /\ out'.op = "alive" /\ out'.ctor = "ok") => HasClient'
        /\ HasClient =>
               /\ stacks'[1]._es.kind = "Elasticsearch"
               /\ stacks'[1].built = stacks[1].built
               /\ stacks[1].built = 1 ]_vars

\* All four operations have run on the handle, and it holds the one client
\* constructed for it.
C18_Witness ==
    /\ HasClient
    /\ stacks[1].built = 1
    /\ out.op = "alive"
    /\ wf.pc = "returned"
    /\ idx.pc = "done" /\ idx.raised = NoneVal
    /\ loadOut.pc = "done" /\ Len(loadOut.calls) = 2

====
